---- MODULE Spec2Model ----
(***************************************************************************)
(* Browser front end of the RAG Q&A system: the API client                 *)
(* (static/js/api.js) and the page controller (static/js/app.js).          *)
(*                                                                         *)
(* Spec        the API client: request, uploadDocument and queryStream,    *)
(*             one call at a time, against every transport outcome.        *)
(* SpecForm    the query form: character counter, options, submission.     *)
(* SpecHealth  the health indicator and its polling timer over the page's  *)
(*             life: DOMContentLoaded, timer ticks, beforeunload.          *)
(* SpecFlows   the UI flows interleaved at their awaits: upload, delete    *)
(*             collection, query, status and collection-info refresh, and  *)
(*             the health poll, with the panels, buttons and toasts.       *)
(***************************************************************************)
EXTENDS Integers, Sequences, FiniteSets, TLC

VARIABLES
    \* ---- API client -------------------------------------------------
    active,           \* the client call in progress: "none", "uploadDocument", "queryStream"
    resp,             \* the transport outcome the last completed call saw
    callResult,       \* how the last call ended: [method, kind, data, error]
    \* uploadDocument
    onProgressGiven,  \* whether the caller passed onProgress
    bodyLength,       \* length of the request body as the transport knows it (0: unknown)
    progressEvents,   \* progress events the transport has fired during this upload
    onProgressCalls,  \* values passed to onProgress during this upload
    progressBar,      \* text of #uploadProgressBar, in percent
    \* queryStream
    onChunkGiven,     \* whether the caller passed onChunk
    streamPc,         \* position inside queryStream
    streamBody,       \* JSON body of the POST to /query/stream
    streamStatus,     \* status of the initial response
    decoderPending,   \* TextDecoder: a lead byte waits for its continuation
    fullText,         \* queryStream's accumulator
    fullAnswer,       \* handleStreamingQuery's accumulator: the chunks passed to onChunk
    onChunkCalls,     \* number of onChunk invocations
    readerReads,      \* number of reader.read() calls
    \* ---- query form ---------------------------------------------------
    questionLength,        \* questionInput.value.length
    charCounter,           \* #charCounter: its text and its warning and danger classes
    useStreamingCheck,     \* useStreamingCheck.checked
    includeSourcesCheck,   \* includeSourcesCheck.checked
    includeSourcesDisabled,\* includeSourcesCheck.disabled
    enableEvaluationCheck, \* enableEvaluationCheck.checked
    sentQuery,             \* the request the last submission put on the wire
    queryToast,            \* the toast the last submission showed before any response
    \* ---- health polling -----------------------------------------------
    domReady,              \* DOMContentLoaded has fired
    pageAlive,             \* the document has not been unloaded
    healthCheckInterval,   \* the global of that name: 0 for undefined, else the timer's id
    timerActive,           \* the interval timer exists and has not been cleared
    timerTicks,            \* ticks of the interval timer so far
    unloadFired,           \* beforeunload: "no", "early" (before the timer was set), "late"
    healthStatus,          \* content of #healthStatus
    healthInFlight,        \* updateHealthIndicator runs waiting for readinessCheck
    healthStarted,         \* updateHealthIndicator runs started
    healthEnded,           \* updateHealthIndicator runs over
    readiness,             \* the Result readinessCheck gave the run that ended last
    \* ---- UI flows -----------------------------------------------------
    panels,                \* content of the page's elements, by id
    buttons,               \* whether each button is in its loading state, by id
    inFlight,              \* runs of each flow waiting at their await, by flow
    queryRun,              \* the locals of the handleQuerySubmit run under way
    lastToast,             \* the toast shown last
    settled,               \* the client call that returned last: its flow and Result
    flowsStarted           \* flows the user or the timer has triggered

clientVars == <<active, resp, callResult, onProgressGiven, bodyLength, progressEvents,
                onProgressCalls, progressBar, onChunkGiven, streamPc, streamBody,
                streamStatus, decoderPending, fullText, fullAnswer, onChunkCalls,
                readerReads>>

formVars == <<questionLength, charCounter, useStreamingCheck, includeSourcesCheck,
              includeSourcesDisabled, enableEvaluationCheck, sentQuery, queryToast>>

healthVars == <<domReady, pageAlive, healthCheckInterval, timerActive, timerTicks,
                unloadFired, healthStatus, healthInFlight, healthStarted, healthEnded,
                readiness>>

flowVars == <<panels, buttons, inFlight, queryRun, lastToast, settled, flowsStarted>>

vars == <<clientVars, formVars, healthVars, flowVars>>

\* the API client touches nothing of the page
PageUnchanged == UNCHANGED <<formVars, healthVars, flowVars>>

FormUnchanged == UNCHANGED <<clientVars, healthVars, flowVars>>

HealthUnchanged == UNCHANGED <<clientVars, formVars, flowVars>>

(***************************************************************************)
(* JavaScript values.                                                      *)
(***************************************************************************)
Null == [t |-> "null"]

Undefined == [t |-> "undefined"]

Str(s) == [t |-> "string", v |-> s]

Bool(b) == [t |-> "boolean", v |-> b]

Obj(fields) == [t |-> "object", f |-> fields]

\* ToBoolean
Truthy(x) ==
    CASE x.t = "null" -> FALSE
      [] x.t = "undefined" -> FALSE
      [] x.t = "string" -> x.v # ""
      [] x.t = "boolean" -> x.v
      [] OTHER -> TRUE

\* a || b
Or(a, b) == IF Truthy(a) THEN a ELSE b

Return(x) == [kind |-> "return", value |-> x]

Throw(msg) == [kind |-> "throw", message |-> msg]

\* x.name: a TypeError on null and undefined, undefined for a missing property
TypeErrorMessage == "Cannot read properties of null"

Get(x, name) ==
    CASE x.t \in {"null", "undefined"} -> Throw(TypeErrorMessage)
      [] x.t = "object" -> Return(IF name \in DOMAIN x.f THEN x.f[name] ELSE Undefined)
      [] OTHER -> Return(Undefined)

(***************************************************************************)
(* The server's side: statuses, content types and bodies.                  *)
(***************************************************************************)
Statuses == {200, 404, 500}

StatusText(status) ==
    CASE status = 200 -> "OK"
      [] status = 404 -> "Not Found"
      [] OTHER -> "Internal Server Error"

\* response.ok
Ok(status) == status >= 200 /\ status < 300

\* the content-type header; Null when the response has none
ContentTypes == {Null, Str("application/json"), Str("application/json; charset=utf-8"),
                 Str("text/plain")}

\* contentType.includes('application/json')
IncludesJson(contentType) ==
    contentType.v \in {"application/json", "application/json; charset=utf-8"}

BodyEmpty == ""
BodyText == "Bad Gateway"
BodyNull == "null"
BodyString == "\"down\""
BodyEmptyObject == "{}"
BodyError == "{\"error\":\"X\"}"
BodyErrorAll == "{\"error\":\"X\",\"message\":\"M\",\"detail\":\"D\"}"
BodyEmptyError == "{\"error\":\"\",\"message\":\"M\"}"
BodyMessage == "{\"message\":\"M\",\"detail\":\"D\"}"
BodyDetail == "{\"detail\":\"D\"}"
BodyReady == "{\"status\":\"ready\",\"qdrant_connected\":true}"
BodyDisconnected == "{\"status\":\"ready\",\"qdrant_connected\":false}"
BodyStarting == "{\"status\":\"starting\",\"qdrant_connected\":true}"

Bodies == {BodyEmpty, BodyText, BodyNull, BodyString, BodyEmptyObject, BodyError,
           BodyErrorAll, BodyEmptyError, BodyMessage, BodyDetail, BodyReady}

SyntaxErrorMessage == "Unexpected token in JSON"

\* JSON.parse / response.json()
JsonParse(text) ==
    CASE text = BodyNull -> Return(Null)
      [] text = BodyString -> Return(Str("down"))
      [] text = BodyEmptyObject -> Return(Obj(<<>>))
      [] text = BodyError -> Return(Obj([error |-> Str("X")]))
      [] text = BodyErrorAll ->
            Return(Obj([error |-> Str("X"), message |-> Str("M"), detail |-> Str("D")]))
      [] text = BodyEmptyError -> Return(Obj([error |-> Str(""), message |-> Str("M")]))
      [] text = BodyMessage -> Return(Obj([message |-> Str("M"), detail |-> Str("D")]))
      [] text = BodyDetail -> Return(Obj([detail |-> Str("D")]))
      [] text = BodyReady ->
            Return(Obj([status |-> Str("ready"), qdrant_connected |-> Bool(TRUE)]))
      [] text = BodyDisconnected ->
            Return(Obj([status |-> Str("ready"), qdrant_connected |-> Bool(FALSE)]))
      [] text = BodyStarting ->
            Return(Obj([status |-> Str("starting"), qdrant_connected |-> Bool(TRUE)]))
      [] text = "{\"collection_name\":\"docs\",\"total_documents\":3,\"status\":\"green\"}" ->
            Return(Obj([collection_name |-> Str("docs"),
                        total_documents |-> [t |-> "number", v |-> 3],
                        status |-> Str("green")]))
      [] text = "{\"status\":\"healthy\",\"version\":\"1.0\",\"timestamp\":\"t\"}" ->
            Return(Obj([status |-> Str("healthy"), version |-> Str("1.0"),
                        timestamp |-> Str("t")]))
      [] text = "{\"status\":\"ready\",\"qdrant_connected\":true,\"collection_info\":{\"name\":\"docs\",\"points_count\":3}}" ->
            Return(Obj([status |-> Str("ready"), qdrant_connected |-> Bool(TRUE),
                        collection_info |->
                            Obj([name |-> Str("docs"),
                                 points_count |-> [t |-> "number", v |-> 3]])]))
      [] text = "{\"status\":\"ready\",\"qdrant_connected\":true,\"collection_info\":{\"name\":\"docs\"}}" ->
            Return(Obj([status |-> Str("ready"), qdrant_connected |-> Bool(TRUE),
                        collection_info |-> Obj([name |-> Str("docs")])]))
      [] text = "{\"answer\":\"Y\",\"sources\":[\"s1\",\"s2\"]}" ->
            Return(Obj([answer |-> Str("Y"),
                        sources |-> Obj([length |-> [t |-> "number", v |-> 2]])]))
      [] text = "{\"filename\":\"a.pdf\"}" -> Return(Obj([filename |-> Str("a.pdf")]))
      [] text = "{\"message\":\"deleted\"}" -> Return(Obj([message |-> Str("deleted")]))
      [] OTHER -> Throw(SyntaxErrorMessage)

\* messages of the exceptions fetch and the body readers reject with
FetchErrors == {"Failed to fetch", ""}

FetchReject(msg) == [fetch |-> "reject", message |-> msg]

FetchResponse(status, contentType, body) ==
    [fetch |-> "ok", status |-> status, statusText |-> StatusText(status),
     contentType |-> contentType, body |-> body]

Responses ==
    {FetchReject(m) : m \in FetchErrors}
    \cup {FetchResponse(s, c, b) : s \in Statuses, c \in ContentTypes, b \in Bodies}

(***************************************************************************)
(* APIClient.request                                                       *)
(***************************************************************************)
Result(data, error) == [data |-> data, error |-> error]

\* `HTTP ${response.status}: ${response.statusText}`
HttpStatusMessage(r) == "HTTP " \o ToString(r.status) \o ": " \o r.statusText

\* requestText without the fallback to the status line
requestTextNoFallback(r) ==
    IF ~Ok(r.status)
    THEN Return(Result(Null, Str(r.body)))
    ELSE Return(Result(Str(r.body), Null))

\* non-JSON responses: the body as text
requestText(r) ==
    IF ~Ok(r.status)
    THEN Return(Result(Null, Or(Str(r.body), Str(HttpStatusMessage(r)))))
    ELSE Return(Result(Str(r.body), Null))

\* errorOf with message looked at before error
errorOfMessageFirst(data, r) ==
    LET e == Get(data, "error")
        m == Get(data, "message")
        d == Get(data, "detail")
    IN  IF e.kind = "throw" THEN e
        ELSE Return(Or(m.value, Or(e.value, Or(d.value, Str(HttpStatusMessage(r))))))

\* data.error || data.message || data.detail || `HTTP ...`
errorOf(data, r) ==
    LET e == Get(data, "error")
        m == Get(data, "message")
        d == Get(data, "detail")
    IN  IF e.kind = "throw" THEN e
        ELSE Return(Or(e.value, Or(m.value, Or(d.value, Str(HttpStatusMessage(r))))))

\* JSON responses
requestJson(r) ==
    LET parsed == JsonParse(r.body)
    IN  IF parsed.kind = "throw" THEN parsed
        ELSE IF ~Ok(r.status)
        THEN LET e == errorOf(parsed.value, r)
             IN  IF e.kind = "throw" THEN e ELSE Return(Result(Null, e.value))
        ELSE Return(Result(parsed.value, Null))

\* the try block
requestTry(r) ==
    IF r.fetch = "reject" THEN Throw(r.message)
    ELSE IF Truthy(r.contentType) /\ ~IncludesJson(r.contentType) THEN requestText(r)
    ELSE requestJson(r)

\* the catch block
requestCatch(message) ==
    Result(Null, Or(Str(message), Str("Network error. Please check your connection.")))

Resolved(method, result) ==
    [method |-> method, kind |-> "resolved", data |-> result.data, error |-> result.error]

Rejected(method) ==
    [method |-> method, kind |-> "rejected", data |-> Null, error |-> Null]

NoCall == [method |-> "none", kind |-> "none", data |-> Null, error |-> Null]

Pending(method) == [method |-> method, kind |-> "pending", data |-> Null, error |-> Null]

\* request with a catch block that rethrows
requestRethrow(r) ==
    LET t == requestTry(r)
    IN  IF t.kind = "throw"
        THEN Rejected("request")
        ELSE Resolved("request", t.value)

\* the promise request returns, settled
request(r) ==
    LET t == requestTry(r)
    IN  IF t.kind = "throw"
        THEN Resolved("request", requestCatch(t.message))
        ELSE Resolved("request", t.value)

\* the locals of an uploadDocument call that is over
UploadLocalsGone ==
    /\ onProgressGiven' = FALSE
    /\ bodyLength' = 0
    /\ progressEvents' = <<>>
    /\ onProgressCalls' = <<>>

\* no request body: nothing was posted
NoBody == [question |-> "", include_sources |-> FALSE, enable_evaluation |-> FALSE, sent |-> FALSE]

\* the locals of a queryStream call, and of its caller, that is over
StreamLocalsGone ==
    /\ onChunkGiven' = FALSE
    /\ streamPc' = "idle"
    /\ streamBody' = NoBody
    /\ streamStatus' = 0
    /\ decoderPending' = FALSE
    /\ fullText' = ""
    /\ fullAnswer' = ""
    /\ onChunkCalls' = 0
    /\ readerReads' = 0

\* request and its wrappers: one call against one transport outcome
Request(r) ==
    /\ active = "none"
    /\ resp' = r
    /\ callResult' = request(r)
    /\ UploadLocalsGone
    /\ StreamLocalsGone
    /\ UNCHANGED <<active, progressBar>>
    /\ PageUnchanged

(***************************************************************************)
(* APIClient.uploadDocument                                                *)
(***************************************************************************)
MaxProgressEvents == 3

MaxBodyLength == 3

\* a progress event of xhr.upload: lengthComputable exactly when the length of
\* the request body is known, and then total is that length
ProgressEvent(loaded) ==
    [lengthComputable |-> bodyLength # 0, loaded |-> loaded, total |-> bodyLength]

\* percentComplete without the scaling to percent
percentCompleteUnscaled(e) == [num |-> e.loaded, den |-> e.total]

\* (e.loaded / e.total) * 100, as the fraction num/den
percentComplete(e) == [num |-> e.loaded * 100, den |-> e.total]

\* Math.round
Round(p) == (2 * p.num + p.den) \div (2 * p.den)

\* whether the progress listener calls onProgress for event e
progressListener(e) == e.lengthComputable

\* the load listener
uploadLoad(status, responseText) ==
    LET parsed == JsonParse(responseText)
        failed == Result(Null, Str("Failed to parse server response"))
    IN  IF parsed.kind = "throw" THEN failed
        ELSE IF status >= 200 /\ status < 300 THEN Result(parsed.value, Null)
        ELSE LET e == Get(parsed.value, "error")
                 m == Get(parsed.value, "message")
                 d == Get(parsed.value, "detail")
             IN  IF e.kind = "throw" THEN failed
                 ELSE Result(Null,
                        Or(e.value, Or(m.value, Or(d.value,
                           Str("Upload failed with status " \o ToString(status))))))

\* the error listener
uploadError == Result(Null, Str("Network error during upload"))

\* the abort listener
uploadAbort == Result(Null, Str("Upload cancelled"))

UploadUnchanged ==
    /\ UNCHANGED <<onChunkGiven, streamPc, streamBody, streamStatus, decoderPending,
                   fullText, fullAnswer, onChunkCalls, readerReads>>
    /\ PageUnchanged

\* uploadDocument(file, onProgress): the executor up to xhr.send
UploadDocument(given, length) ==
    /\ active = "none"
    /\ active' = "uploadDocument"
    /\ resp' = [fetch |-> "none"]
    /\ callResult' = Pending("uploadDocument")
    /\ onProgressGiven' = given
    /\ bodyLength' = length
    /\ progressEvents' = <<>>
    /\ onProgressCalls' = <<>>
    /\ progressBar' = IF given THEN 0 ELSE progressBar
    /\ StreamLocalsGone
    /\ PageUnchanged

LastLoaded == IF progressEvents = <<>> THEN 0 ELSE progressEvents[Len(progressEvents)].loaded

\* xhr.upload fires progress; handleFileUpload's callback rounds the value into the bar
XhrProgress(loaded) ==
    /\ active = "uploadDocument"
    /\ Len(progressEvents) < MaxProgressEvents
    /\ loaded >= LastLoaded
    /\ bodyLength # 0 => loaded <= bodyLength
    /\ LET e == ProgressEvent(loaded)
           called == onProgressGiven /\ progressListener(e)
       IN  /\ progressEvents' = Append(progressEvents, e)
           /\ onProgressCalls' =
                IF called THEN Append(onProgressCalls, percentComplete(e)) ELSE onProgressCalls
           /\ progressBar' = IF called THEN Round(percentComplete(e)) ELSE progressBar
    /\ UNCHANGED <<active, resp, callResult, onProgressGiven, bodyLength>>
    /\ UploadUnchanged

UploadSettle(outcome, result) ==
    /\ active = "uploadDocument"
    /\ active' = "none"
    /\ resp' = outcome
    /\ callResult' = Resolved("uploadDocument", result)
    /\ UNCHANGED <<onProgressGiven, bodyLength, progressEvents, onProgressCalls, progressBar>>
    /\ UploadUnchanged

XhrLoad(status, responseText) ==
    UploadSettle([xhr |-> "load", status |-> status, body |-> responseText],
                 uploadLoad(status, responseText))

XhrError == UploadSettle([xhr |-> "error"], uploadError)

XhrAbort == UploadSettle([xhr |-> "abort"], uploadAbort)

(***************************************************************************)
(* APIClient.queryStream                                                   *)
(***************************************************************************)
MaxChunks == 3

Question == "What is X?"

\* the pieces the body arrives in: 0x61 is "a", 0xC3 0xA9 is the two-byte "e-acute"
StreamChunks == {<<97>>, <<195, 169>>, <<97, 195>>, <<169, 97>>, <<195>>}

StreamErrorTexts == {"", "Bad Gateway", "{\"detail\":\"D\"}"}

ReplacementChar == "[fffd]"

\* TextDecoder.decode(value, {stream: true}) on one byte
DecodeByte(pending, b) ==
    IF pending
    THEN CASE b = 169 -> [text |-> "[e9]", pending |-> FALSE]
           [] b = 195 -> [text |-> ReplacementChar, pending |-> TRUE]
           [] OTHER -> [text |-> ReplacementChar \o "a", pending |-> FALSE]
    ELSE CASE b = 169 -> [text |-> ReplacementChar, pending |-> FALSE]
           [] b = 195 -> [text |-> "", pending |-> TRUE]
           [] OTHER -> [text |-> "a", pending |-> FALSE]

RECURSIVE Decode(_, _)
Decode(pending, bytes) ==
    IF bytes = <<>> THEN [text |-> "", pending |-> pending]
    ELSE LET first == DecodeByte(pending, Head(bytes))
             rest == Decode(first.pending, Tail(bytes))
         IN  [text |-> first.text \o rest.text, pending |-> rest.pending]

\* the catch block
streamCatch(message) ==
    Result(Null, Or(Str(message), Str("Streaming failed. Please try again.")))

\* the return of the !response.ok branch
streamHttpError(status, errorText) ==
    Result(Null, Or(Str(errorText), Str("HTTP " \o ToString(status) \o ": " \o StatusText(status))))

\* the return after the loop
streamDone(text) == Result(Str(text), Null)

StreamUnchanged ==
    /\ UNCHANGED <<onProgressGiven, bodyLength, progressEvents, onProgressCalls, progressBar>>
    /\ PageUnchanged

\* the body queryStream posts
streamRequestBody(question) ==
    [question |-> question, include_sources |-> FALSE, enable_evaluation |-> FALSE,
     sent |-> TRUE]

\* the body query posts
queryRequestBody(question, includeSources, enableEvaluation) ==
    [question |-> question, include_sources |-> includeSources,
     enable_evaluation |-> enableEvaluation, sent |-> TRUE]

\* queryStream(question, onChunk) up to the first await; handleStreamingQuery
\* starts its own accumulator before the call
QueryStream(given) ==
    /\ active = "none"
    /\ active' = "queryStream"
    /\ resp' = [fetch |-> "none"]
    /\ callResult' = Pending("queryStream")
    /\ onChunkGiven' = given
    /\ streamPc' = "fetch"
    /\ streamBody' = streamRequestBody(Question)
    /\ streamStatus' = 0
    /\ decoderPending' = FALSE
    /\ fullText' = ""
    /\ fullAnswer' = ""
    /\ onChunkCalls' = 0
    /\ readerReads' = 0
    /\ UploadLocalsGone
    /\ UNCHANGED progressBar
    /\ PageUnchanged

StreamSettle(outcome, result) ==
    /\ active' = "none"
    /\ streamPc' = "idle"
    /\ resp' = outcome
    /\ callResult' = Resolved("queryStream", result)
    /\ UNCHANGED <<onChunkGiven, streamBody, streamStatus, decoderPending, fullText,
                   fullAnswer, onChunkCalls, readerReads>>
    /\ StreamUnchanged

\* fetch rejects
StreamFetchReject(msg) ==
    /\ streamPc = "fetch"
    /\ StreamSettle([stream |-> "fetchReject", message |-> msg], streamCatch(msg))

\* StreamFetchResponse without the response.ok test
StreamFetchResponseUnchecked(status) ==
    /\ streamPc = "fetch"
    /\ streamStatus' = status
    /\ streamPc' = "read"
    /\ UNCHANGED <<active, resp, callResult, onChunkGiven, streamBody, decoderPending,
                   fullText, fullAnswer, onChunkCalls, readerReads>>
    /\ StreamUnchanged

\* fetch resolves with the response's head
StreamFetchResponse(status) ==
    /\ streamPc = "fetch"
    /\ streamStatus' = status
    /\ streamPc' = IF Ok(status) THEN "read" ELSE "text"
    /\ UNCHANGED <<active, resp, callResult, onChunkGiven, streamBody, decoderPending,
                   fullText, fullAnswer, onChunkCalls, readerReads>>
    /\ StreamUnchanged

\* response.text() of a non-2xx response resolves
StreamErrorText(errorText) ==
    /\ streamPc = "text"
    /\ StreamSettle([stream |-> "httpError", status |-> streamStatus, text |-> errorText],
                    streamHttpError(streamStatus, errorText))

\* response.text() of a non-2xx response rejects
StreamErrorTextReject(msg) ==
    /\ streamPc = "text"
    /\ StreamSettle([stream |-> "textReject", status |-> streamStatus, message |-> msg],
                    streamCatch(msg))

\* StreamRead with fullText = chunk in place of fullText += chunk
StreamReadAssign(value) ==
    /\ streamPc = "read"
    /\ readerReads < MaxChunks
    /\ LET decoded == Decode(decoderPending, value)
       IN  /\ decoderPending' = decoded.pending
           /\ fullText' = decoded.text
           /\ fullAnswer' = IF onChunkGiven THEN fullAnswer \o decoded.text ELSE fullAnswer
           /\ onChunkCalls' = IF onChunkGiven THEN onChunkCalls + 1 ELSE onChunkCalls
    /\ readerReads' = readerReads + 1
    /\ UNCHANGED <<active, resp, callResult, onChunkGiven, streamPc, streamBody, streamStatus>>
    /\ StreamUnchanged

\* reader.read() resolves with a chunk
StreamRead(value) ==
    /\ streamPc = "read"
    /\ readerReads < MaxChunks
    /\ LET decoded == Decode(decoderPending, value)
       IN  /\ decoderPending' = decoded.pending
           /\ fullText' = fullText \o decoded.text
           /\ fullAnswer' = IF onChunkGiven THEN fullAnswer \o decoded.text ELSE fullAnswer
           /\ onChunkCalls' = IF onChunkGiven THEN onChunkCalls + 1 ELSE onChunkCalls
    /\ readerReads' = readerReads + 1
    /\ UNCHANGED <<active, resp, callResult, onChunkGiven, streamPc, streamBody, streamStatus>>
    /\ StreamUnchanged

\* reader.read() resolves with done
StreamReadDone ==
    /\ streamPc = "read"
    /\ readerReads' = readerReads + 1
    /\ active' = "none"
    /\ streamPc' = "idle"
    /\ resp' = [stream |-> "done", status |-> streamStatus]
    /\ callResult' = Resolved("queryStream", streamDone(fullText))
    /\ UNCHANGED <<onChunkGiven, streamBody, streamStatus, decoderPending, fullText,
                   fullAnswer, onChunkCalls>>
    /\ StreamUnchanged

\* reader.read() rejects
StreamReadReject(msg) ==
    /\ streamPc = "read"
    /\ readerReads' = readerReads + 1
    /\ active' = "none"
    /\ streamPc' = "idle"
    /\ resp' = [stream |-> "readReject", status |-> streamStatus, message |-> msg]
    /\ callResult' = Resolved("queryStream", streamCatch(msg))
    /\ UNCHANGED <<onChunkGiven, streamBody, streamStatus, decoderPending, fullText,
                   fullAnswer, onChunkCalls>>
    /\ StreamUnchanged

(***************************************************************************)
(* The API client, one call at a time.                                     *)
(***************************************************************************)
ClientInit ==
    /\ active = "none"
    /\ resp = [fetch |-> "none"]
    /\ callResult = NoCall
    /\ onProgressGiven = FALSE
    /\ bodyLength = 0
    /\ progressEvents = <<>>
    /\ onProgressCalls = <<>>
    /\ progressBar = 0
    /\ onChunkGiven = FALSE
    /\ streamPc = "idle"
    /\ streamBody = NoBody
    /\ streamStatus = 0
    /\ decoderPending = FALSE
    /\ fullText = ""
    /\ fullAnswer = ""
    /\ onChunkCalls = 0
    /\ readerReads = 0

ClientNext ==
    \/ \E r \in Responses : Request(r)
    \/ \E given \in BOOLEAN, length \in 0..MaxBodyLength : UploadDocument(given, length)
    \/ \E loaded \in 0..MaxBodyLength : XhrProgress(loaded)
    \/ \E status \in Statuses, text \in Bodies : XhrLoad(status, text)
    \/ XhrError
    \/ XhrAbort
    \/ \E given \in BOOLEAN : QueryStream(given)
    \/ \E msg \in FetchErrors : StreamFetchReject(msg)
    \/ \E status \in Statuses : StreamFetchResponse(status)
    \/ \E text \in StreamErrorTexts : StreamErrorText(text)
    \/ \E msg \in FetchErrors : StreamErrorTextReject(msg)
    \/ \E value \in StreamChunks : StreamRead(value)
    \/ StreamReadDone
    \/ \E msg \in FetchErrors : StreamReadReject(msg)

(***************************************************************************)
(* The query form (initializeQueryForm, handleQuerySubmit).                *)
(***************************************************************************)
QuestionLengths == {0, 1, 900, 901, 950, 951, 1000}

\* the input listener of questionInput
charCounterInput(length) ==
    [text |-> ToString(length) \o " / 1000",
     warning |-> length > 900 /\ ~(length > 950),
     danger |-> length > 950]

\* streamingChange without includeSourcesCheck.checked = false
streamingChangeKeepsChecked(streaming, sources) ==
    IF streaming
    THEN [checked |-> sources, disabled |-> TRUE]
    ELSE [checked |-> sources, disabled |-> FALSE]

\* the change listener of useStreamingCheck, with streaming checked or not:
\* what it makes of includeSourcesCheck
streamingChange(streaming, sources) ==
    IF streaming
    THEN [checked |-> FALSE, disabled |-> TRUE]
    ELSE [checked |-> sources, disabled |-> FALSE]

\* the request handleQuerySubmit dispatches
dispatchQuery(useStreaming, includeSources, enableEvaluation) ==
    IF useStreaming
    THEN [endpoint |-> "/query/stream", body |-> streamRequestBody(Question)]
    ELSE [endpoint |-> "/query",
          body |-> queryRequestBody(Question, includeSources, enableEvaluation)]

NoQuery == [endpoint |-> "none", body |-> NoBody]

FormInit ==
    /\ questionLength = 0
    /\ charCounter = [text |-> "0 / 1000", warning |-> FALSE, danger |-> FALSE]
    /\ useStreamingCheck \in BOOLEAN
    /\ includeSourcesCheck \in BOOLEAN
    /\ includeSourcesDisabled = FALSE
    /\ enableEvaluationCheck \in BOOLEAN
    /\ sentQuery = NoQuery
    /\ queryToast = "none"

FormIdle ==
    /\ questionLength = 0
    /\ charCounter = [text |-> "0 / 1000", warning |-> FALSE, danger |-> FALSE]
    /\ useStreamingCheck = FALSE
    /\ includeSourcesCheck = FALSE
    /\ includeSourcesDisabled = FALSE
    /\ enableEvaluationCheck = FALSE
    /\ sentQuery = NoQuery
    /\ queryToast = "none"

\* the user edits the question
QuestionInput(length) ==
    /\ questionLength' = length
    /\ charCounter' = charCounterInput(length)
    /\ UNCHANGED <<useStreamingCheck, includeSourcesCheck, includeSourcesDisabled,
                   enableEvaluationCheck, sentQuery, queryToast>>
    /\ FormUnchanged

\* the user clicks the streaming toggle
StreamingChange ==
    /\ useStreamingCheck' = ~useStreamingCheck
    /\ LET sources == streamingChange(useStreamingCheck', includeSourcesCheck)
       IN  /\ includeSourcesCheck' = sources.checked
           /\ includeSourcesDisabled' = sources.disabled
    /\ UNCHANGED <<questionLength, charCounter, enableEvaluationCheck, sentQuery, queryToast>>
    /\ FormUnchanged

\* the user clicks the include-sources option, which a disabled control ignores
SourcesClick ==
    /\ ~includeSourcesDisabled
    /\ includeSourcesCheck' = ~includeSourcesCheck
    /\ UNCHANGED <<questionLength, charCounter, useStreamingCheck, includeSourcesDisabled,
                   enableEvaluationCheck, sentQuery, queryToast>>
    /\ FormUnchanged

\* the user clicks the evaluation option
EvaluationClick ==
    /\ enableEvaluationCheck' = ~enableEvaluationCheck
    /\ UNCHANGED <<questionLength, charCounter, useStreamingCheck, includeSourcesCheck,
                   includeSourcesDisabled, sentQuery, queryToast>>
    /\ FormUnchanged

\* the form is submitted; valid is what validateQuestion says of the question
QuerySubmit(valid) ==
    /\ IF valid
       THEN /\ sentQuery' = dispatchQuery(useStreamingCheck, includeSourcesCheck,
                                          enableEvaluationCheck)
            /\ queryToast' = "none"
       ELSE /\ sentQuery' = NoQuery
            /\ queryToast' = "error"
    /\ UNCHANGED <<questionLength, charCounter, useStreamingCheck, includeSourcesCheck,
                   includeSourcesDisabled, enableEvaluationCheck>>
    /\ FormUnchanged

FormNext ==
    \/ \E length \in QuestionLengths : QuestionInput(length)
    \/ StreamingChange
    \/ SourcesClick
    \/ EvaluationClick
    \/ \E valid \in BOOLEAN : QuerySubmit(valid)

(***************************************************************************)
(* Health polling (initializeHealthCheck, updateHealthIndicator, the       *)
(* beforeunload listener).                                                 *)
(***************************************************************************)
MaxTicks == 2

\* what /health/ready may answer
ReadinessResponses ==
    {FetchReject(m) : m \in FetchErrors}
    \cup {FetchResponse(s, c, b) :
            s \in {200, 500},
            c \in {Str("application/json"), Str("text/plain")},
            b \in {BodyReady, BodyDisconnected, BodyStarting, BodyNull, BodyError}}

Markup == [dot |-> "", text |-> ""]

Checking == [dot |-> "checking", text |-> "Checking..."]

Unhealthy == [dot |-> "unhealthy", text |-> "Unhealthy"]

\* the else branch's indicator
statusIndicator(isHealthy) ==
    [dot |-> IF isHealthy THEN "healthy" ELSE "unhealthy",
     text |-> IF isHealthy THEN "Healthy" ELSE "Degraded"]

\* data.status === 'ready' && data.qdrant_connected
isHealthyOf(data) ==
    LET status == Get(data, "status")
        connected == Get(data, "qdrant_connected")
    IN  IF status.kind = "throw" THEN status
        ELSE IF status.value = Str("ready") THEN connected ELSE Return(Bool(FALSE))

\* updateHealthIndicator after the await: the indicator it writes, or the
\* exception it ends with
healthIndicatorOf(result) ==
    IF Truthy(result.error) THEN Return(Unhealthy)
    ELSE LET isHealthy == isHealthyOf(result.data)
         IN  IF isHealthy.kind = "throw" THEN isHealthy
             ELSE Return(statusIndicator(Truthy(isHealthy.value)))

NoResult == [kind |-> "none", data |-> Null, error |-> Null]

HealthInit ==
    /\ domReady = FALSE
    /\ pageAlive = TRUE
    /\ healthCheckInterval = 0
    /\ timerActive = FALSE
    /\ timerTicks = 0
    /\ unloadFired = "no"
    /\ healthStatus = Markup
    /\ healthInFlight = 0
    /\ healthStarted = 0
    /\ healthEnded = 0
    /\ readiness = NoResult

\* updateHealthIndicator up to the await
HealthStart ==
    /\ healthStatus' = Checking
    /\ healthInFlight' = healthInFlight + 1
    /\ healthStarted' = healthStarted + 1

\* DOMContentLoaded: initializeHealthCheck
DOMContentLoaded ==
    /\ pageAlive
    /\ ~domReady
    /\ domReady' = TRUE
    /\ HealthStart
    /\ healthCheckInterval' = 1
    /\ timerActive' = TRUE
    /\ UNCHANGED <<pageAlive, timerTicks, unloadFired, healthEnded, readiness>>
    /\ HealthUnchanged

\* the interval timer fires
TimerTick ==
    /\ pageAlive
    /\ timerActive
    /\ timerTicks < MaxTicks
    /\ timerTicks' = timerTicks + 1
    /\ HealthStart
    /\ UNCHANGED <<domReady, pageAlive, healthCheckInterval, timerActive, unloadFired,
                   healthEnded, readiness>>
    /\ HealthUnchanged

\* updateHealthIndicator from the await on, for one waiting run
HealthResume(r) ==
    /\ healthInFlight > 0
    /\ healthInFlight' = healthInFlight - 1
    /\ healthEnded' = healthEnded + 1
    /\ LET call == request(r)
           result == Result(call.data, call.error)
           written == healthIndicatorOf(result)
       IN  /\ readiness' = [kind |-> written.kind, data |-> result.data, error |-> result.error]
           /\ healthStatus' = IF written.kind = "return" THEN written.value ELSE healthStatus

\* readinessCheck settles for one waiting run
HealthSettle(r) ==
    /\ pageAlive
    /\ HealthResume(r)
    /\ UNCHANGED <<domReady, pageAlive, healthCheckInterval, timerActive, timerTicks,
                   unloadFired, healthStarted>>
    /\ HealthUnchanged

\* BeforeUnload without the clearInterval call
BeforeUnloadKeepsTimer(stays) ==
    /\ pageAlive
    /\ timerActive' = timerActive
    /\ unloadFired' = IF healthCheckInterval # 0 THEN "late"
                      ELSE IF unloadFired = "no" THEN "early" ELSE unloadFired
    /\ pageAlive' = stays
    /\ UNCHANGED <<domReady, healthCheckInterval, timerTicks, healthStatus, healthInFlight,
                   healthStarted, healthEnded, readiness>>
    /\ HealthUnchanged

\* the beforeunload listener; the navigation then unloads the page or leaves it
BeforeUnload(stays) ==
    /\ pageAlive
    /\ timerActive' = IF healthCheckInterval # 0 THEN FALSE ELSE timerActive
    /\ unloadFired' = IF healthCheckInterval # 0 THEN "late"
                      ELSE IF unloadFired = "no" THEN "early" ELSE unloadFired
    /\ pageAlive' = stays
    /\ UNCHANGED <<domReady, healthCheckInterval, timerTicks, healthStatus, healthInFlight,
                   healthStarted, healthEnded, readiness>>
    /\ HealthUnchanged

HealthNext ==
    \/ DOMContentLoaded
    \/ TimerTick
    \/ \E r \in ReadinessResponses : HealthSettle(r)
    \/ \E stays \in BOOLEAN : BeforeUnload(stays)

(***************************************************************************)
(* The UI flows (handleFileUpload, handleDeleteCollection,                 *)
(* handleQuerySubmit, refreshStatusInfo, refreshCollectionInfo and, again, *)
(* updateHealthIndicator), interleaved at their awaits.                    *)
(***************************************************************************)
MaxFlows == 2

Num(n) == [t |-> "number", v |-> n]

BodyInfo == "{\"collection_name\":\"docs\",\"total_documents\":3,\"status\":\"green\"}"
BodyHealth == "{\"status\":\"healthy\",\"version\":\"1.0\",\"timestamp\":\"t\"}"
BodyReadyCollection ==
    "{\"status\":\"ready\",\"qdrant_connected\":true,\"collection_info\":{\"name\":\"docs\",\"points_count\":3}}"
BodyBareCollection ==
    "{\"status\":\"ready\",\"qdrant_connected\":true,\"collection_info\":{\"name\":\"docs\"}}"
BodyAnswer == "{\"answer\":\"Y\",\"sources\":[\"s1\",\"s2\"]}"
BodyUploaded == "{\"filename\":\"a.pdf\"}"
BodyDeleted == "{\"message\":\"deleted\"}"

\* what a JSON endpoint may answer: no answer, an error, the expected body,
\* an object without the expected fields, null
FlowResponses(expected) ==
    {FetchReject("Failed to fetch"),
     FetchResponse(500, Str("application/json"), BodyError),
     FetchResponse(200, Str("application/json"), expected),
     FetchResponse(200, Str("application/json"), BodyEmptyObject),
     FetchResponse(200, Str("application/json"), BodyNull)}

\* the Result of request against r
resultOf(r) == Result(request(r).data, request(r).error)

\* element contents
Empty == [kind |-> "empty"]

LoadingSpinner == [kind |-> "loadingSpinner"]

ErrorAlert(message) == [kind |-> "errorAlert", message |-> message]

Rendered(component, data) == [kind |-> component, data |-> data]

Toast(n, type, message) == [n |-> n, type |-> type, message |-> message]

errorToastAsInfo(n, error) == Toast(n, "info", error)

\* showToast(error, 'error')
errorToast(n, error) == Toast(n, "error", error)

\* x.method(): a TypeError when x is null or undefined
Method(x) ==
    IF x.kind = "throw" THEN x
    ELSE IF x.value.t \in {"null", "undefined"} THEN Throw(TypeErrorMessage)
    ELSE x

PanelIds == {"uploadResult", "uploadProgress", "resultsArea", "healthStatusContent",
             "readinessStatusContent", "collectionInfoContent", "docCount", "lastUpdated"}

ButtonIds == {"deleteCollectionBtn", "submitQueryBtn", "refreshStatusBtn", "refreshInfoBtn"}

FlowNames == {"upload", "delete", "query", "statusHealth", "statusReadiness", "info"}

NoRun == [mode |-> "none", includeSources |-> FALSE, enableEvaluation |-> FALSE,
          fullAnswer |-> <<>>]

FlowInit ==
    /\ panels = [id \in PanelIds |-> Empty]
    /\ buttons = [id \in ButtonIds |-> FALSE]
    /\ inFlight = [f \in FlowNames |-> 0]
    /\ queryRun = NoRun
    /\ lastToast = Toast(0, "none", Null)
    /\ settled = [n |-> 0, flow |-> "none", data |-> Null, error |-> Null, threw |-> FALSE]
    /\ flowsStarted = 0

\* a client call of flow returns result; threw: the flow then ended with an exception
Settle(flow, result, threw) ==
    settled' = [n |-> settled.n + 1, flow |-> flow, data |-> result.data,
                error |-> result.error, threw |-> threw]

\* the user or the timer may trigger one more flow
Triggered ==
    /\ flowsStarted < MaxFlows
    /\ flowsStarted' = flowsStarted + 1

FlowUnchanged == UNCHANGED <<clientVars, formVars>>

PollUnchanged ==
    UNCHANGED <<domReady, pageAlive, healthCheckInterval, timerActive, timerTicks,
                unloadFired>>

NoPoll == UNCHANGED healthVars

\* ---- refreshCollectionInfo -----------------------------------------------
\* refreshCollectionInfo up to the await, on the panels and buttons given
infoStart(ps, bs) ==
    [panels |-> [ps EXCEPT !["collectionInfoContent"] = LoadingSpinner],
     buttons |-> [bs EXCEPT !["refreshInfoBtn"] = TRUE]]

\* the else branch: the three statistics, or the exception it ends with
infoRendered(data) ==
    LET status == Method(Get(data, "status"))
        total == Method(Get(data, "total_documents"))
    IN  IF status.kind = "throw" THEN status
        ELSE IF total.kind = "throw" THEN total
        ELSE Return(Rendered("collectionStat", data))

\* the refresh button is clicked or the info tab is shown
RefreshCollectionInfo ==
    /\ Triggered
    /\ panels' = infoStart(panels, buttons).panels
    /\ buttons' = infoStart(panels, buttons).buttons
    /\ inFlight' = [inFlight EXCEPT !["info"] = @ + 1]
    /\ UNCHANGED <<queryRun, lastToast, settled>>
    /\ NoPoll
    /\ FlowUnchanged

\* getCollectionInfo returns to one waiting run
InfoSettle(r) ==
    /\ inFlight["info"] > 0
    /\ inFlight' = [inFlight EXCEPT !["info"] = @ - 1]
    /\ LET result == resultOf(r)
           rendered == infoRendered(result.data)
       IN  IF Truthy(result.error)
           THEN /\ panels' = [panels EXCEPT !["collectionInfoContent"] = ErrorAlert(result.error)]
                /\ buttons' = [buttons EXCEPT !["refreshInfoBtn"] = FALSE]
                /\ Settle("info", result, FALSE)
           ELSE IF rendered.kind = "throw"
           THEN /\ UNCHANGED <<panels, buttons>>
                /\ Settle("info", result, TRUE)
           ELSE /\ panels' = [panels EXCEPT !["collectionInfoContent"] = rendered.value,
                                            !["docCount"] = Get(result.data, "total_documents").value]
                /\ buttons' = [buttons EXCEPT !["refreshInfoBtn"] = FALSE]
                /\ Settle("info", result, FALSE)
    /\ UNCHANGED <<queryRun, lastToast, flowsStarted>>
    /\ NoPoll
    /\ FlowUnchanged

\* ---- handleFileUpload ----------------------------------------------------
UploadResults ==
    {uploadError, uploadAbort, uploadLoad(200, BodyUploaded), uploadLoad(200, BodyEmptyObject),
     uploadLoad(200, BodyNull), uploadLoad(500, BodyError), uploadLoad(500, BodyText)}

\* a file is chosen or dropped; valid is what validateFile says of it
HandleFileUpload(valid) ==
    /\ Triggered
    /\ IF valid
       THEN /\ panels' = [panels EXCEPT !["uploadResult"] = Empty,
                                        !["uploadProgress"] = Rendered("progress", Num(0))]
            /\ inFlight' = [inFlight EXCEPT !["upload"] = @ + 1]
       ELSE /\ panels' = [panels EXCEPT !["uploadResult"] = ErrorAlert(Str("invalid file"))]
            /\ UNCHANGED inFlight
    /\ UNCHANGED <<buttons, queryRun, lastToast, settled>>
    /\ NoPoll
    /\ FlowUnchanged

\* uploadDocument resolves for one waiting run
UploadFlowSettle(result) ==
    /\ inFlight["upload"] > 0
    /\ LET hidden == [panels EXCEPT !["uploadProgress"] = Empty]
           filename == Get(result.data, "filename")
       IN  IF Truthy(result.error)
           THEN /\ panels' = [hidden EXCEPT !["uploadResult"] = ErrorAlert(result.error)]
                /\ lastToast' = errorToast(settled.n + 1, result.error)
                /\ inFlight' = [inFlight EXCEPT !["upload"] = @ - 1]
                /\ UNCHANGED buttons
                /\ Settle("upload", result, FALSE)
           ELSE IF filename.kind = "throw"
           THEN \* the catch block
                /\ panels' = [hidden EXCEPT !["uploadResult"] =
                                ErrorAlert(Str("Upload failed: " \o filename.message))]
                /\ lastToast' = Toast(settled.n + 1, "error", Str("Upload failed"))
                /\ inFlight' = [inFlight EXCEPT !["upload"] = @ - 1]
                /\ UNCHANGED buttons
                /\ Settle("upload", result, FALSE)
           ELSE LET shown == [hidden EXCEPT !["uploadResult"] =
                                Rendered("uploadResult", result.data)]
                IN  /\ panels' = infoStart(shown, buttons).panels
                    /\ buttons' = infoStart(shown, buttons).buttons
                    /\ lastToast' = Toast(settled.n + 1, "success", filename.value)
                    /\ inFlight' = [inFlight EXCEPT !["upload"] = @ - 1, !["info"] = @ + 1]
                    /\ Settle("upload", result, FALSE)
    /\ UNCHANGED <<queryRun, flowsStarted>>
    /\ NoPoll
    /\ FlowUnchanged

\* ---- handleDeleteCollection ----------------------------------------------
\* the confirmation is typed and accepted; a button that is loading takes no click
DeleteConfirmed ==
    /\ Triggered
    /\ ~buttons["deleteCollectionBtn"]
    /\ buttons' = [buttons EXCEPT !["deleteCollectionBtn"] = TRUE]
    /\ inFlight' = [inFlight EXCEPT !["delete"] = @ + 1]
    /\ UNCHANGED <<panels, queryRun, lastToast, settled>>
    /\ NoPoll
    /\ FlowUnchanged

\* deleteCollection returns
DeleteSettle(r) ==
    /\ inFlight["delete"] > 0
    /\ LET result == resultOf(r)
           reset == [buttons EXCEPT !["deleteCollectionBtn"] = FALSE]
       IN  IF Truthy(result.error)
           THEN /\ buttons' = reset
                /\ lastToast' = errorToast(settled.n + 1, result.error)
                /\ inFlight' = [inFlight EXCEPT !["delete"] = @ - 1]
                /\ UNCHANGED panels
                /\ Settle("delete", result, FALSE)
           ELSE LET cleared == [panels EXCEPT !["uploadResult"] = Empty]
                IN  /\ panels' = infoStart(cleared, reset).panels
                    /\ buttons' = infoStart(cleared, reset).buttons
                    /\ lastToast' = Toast(settled.n + 1, "success",
                                          Str("Collection deleted successfully"))
                    /\ inFlight' = [inFlight EXCEPT !["delete"] = @ - 1, !["info"] = @ + 1]
                    /\ Settle("delete", result, FALSE)
    /\ UNCHANGED <<queryRun, flowsStarted>>
    /\ NoPoll
    /\ FlowUnchanged

\* ---- handleQuerySubmit, handleStandardQuery, handleStreamingQuery ----------
\* the pieces onChunk may be given
FlowChunks == {"a"}

\* handleStandardQuery's markup for data, or the exception it ends with
standardRendered(data, includeSources, enableEvaluation) ==
    LET sources == Get(data, "sources")
        evaluation == Get(data, "evaluation")
        shown == /\ includeSources
                 /\ Truthy(sources.value)
                 /\ Get(sources.value, "length").value.t = "number"
                 /\ Get(sources.value, "length").value.v > 0
    IN  IF includeSources /\ sources.kind = "throw" THEN sources
        ELSE IF enableEvaluation /\ evaluation.kind = "throw" THEN evaluation
        ELSE Return([kind |-> "answerDisplay", data |-> data, sources |-> shown,
                     evaluation |-> enableEvaluation /\ Truthy(evaluation.value)])

StreamingCard(answer, cursor) ==
    [kind |-> "answerCard", answer |-> answer, streaming |-> cursor]

\* the form is submitted; valid is what validateQuestion says of the question;
\* a submit button that is loading submits nothing
HandleQuerySubmit(valid, useStreaming, includeSources, enableEvaluation) ==
    /\ Triggered
    /\ ~buttons["submitQueryBtn"]
    /\ IF valid
       THEN /\ panels' = [panels EXCEPT !["resultsArea"] =
                            IF useStreaming THEN StreamingCard(<<>>, TRUE) ELSE LoadingSpinner]
            /\ buttons' = [buttons EXCEPT !["submitQueryBtn"] = TRUE]
            /\ inFlight' = [inFlight EXCEPT !["query"] = @ + 1]
            /\ queryRun' = [mode |-> IF useStreaming THEN "stream" ELSE "standard",
                            includeSources |-> ~useStreaming /\ includeSources,
                            enableEvaluation |-> ~useStreaming /\ enableEvaluation,
                            fullAnswer |-> <<>>]
            /\ UNCHANGED lastToast
       ELSE /\ lastToast' = Toast(settled.n, "error", Str("invalid question"))
            /\ UNCHANGED <<panels, buttons, inFlight, queryRun>>
    /\ UNCHANGED settled
    /\ NoPoll
    /\ FlowUnchanged

\* handleQuerySubmit's finally, after its try or catch
queryFinally == [buttons EXCEPT !["submitQueryBtn"] = FALSE]

\* apiClient.query returns
StandardQuerySettle(r) ==
    /\ inFlight["query"] > 0
    /\ queryRun.mode = "standard"
    /\ LET result == resultOf(r)
           rendered == standardRendered(result.data, queryRun.includeSources,
                                        queryRun.enableEvaluation)
       IN  /\ Settle("query", result, FALSE)
           /\ IF Truthy(result.error)
              THEN /\ panels' = [panels EXCEPT !["resultsArea"] = ErrorAlert(result.error)]
                   /\ lastToast' = errorToast(settled.n + 1, result.error)
              ELSE IF rendered.kind = "throw"
              THEN /\ panels' = [panels EXCEPT !["resultsArea"] =
                                    ErrorAlert(Str(rendered.message))]
                   /\ lastToast' = Toast(settled.n + 1, "error", Str("Query failed"))
              ELSE /\ panels' = [panels EXCEPT !["resultsArea"] = rendered.value]
                   /\ lastToast' = Toast(settled.n + 1, "success",
                                         Str("Answer generated successfully"))
    /\ buttons' = queryFinally
    /\ inFlight' = [inFlight EXCEPT !["query"] = @ - 1]
    /\ queryRun' = NoRun
    /\ UNCHANGED flowsStarted
    /\ NoPoll
    /\ FlowUnchanged

\* queryStream calls onChunk
StreamFlowChunk(chunk) ==
    /\ inFlight["query"] > 0
    /\ queryRun.mode = "stream"
    /\ Len(queryRun.fullAnswer) < MaxChunks
    /\ queryRun' = [queryRun EXCEPT !.fullAnswer = Append(@, chunk)]
    /\ panels' = [panels EXCEPT !["resultsArea"] =
                    StreamingCard(Append(queryRun.fullAnswer, chunk), TRUE)]
    /\ UNCHANGED <<buttons, inFlight, lastToast, settled, flowsStarted>>
    /\ NoPoll
    /\ FlowUnchanged

RECURSIVE Concat(_)
Concat(chunks) == IF chunks = <<>> THEN "" ELSE Head(chunks) \o Concat(Tail(chunks))

StreamOutcomes == {"done", "catch", "httpError"}

\* the Result queryStream gives a run whose onChunk was given chunks
streamResult(outcome, chunks) ==
    CASE outcome = "done" -> streamDone(Concat(chunks))
      [] outcome = "catch" -> streamCatch("network error")
      [] OTHER -> streamHttpError(500, "Bad Gateway")

\* apiClient.queryStream returns; the status is checked before the first read
StreamQuerySettle(outcome) ==
    /\ inFlight["query"] > 0
    /\ queryRun.mode = "stream"
    /\ outcome = "httpError" => queryRun.fullAnswer = <<>>
    /\ LET result == streamResult(outcome, queryRun.fullAnswer)
       IN  /\ Settle("stream", result, FALSE)
           /\ IF Truthy(result.error)
              THEN /\ panels' = [panels EXCEPT !["resultsArea"] = ErrorAlert(result.error)]
                   /\ lastToast' = errorToast(settled.n + 1, result.error)
              ELSE /\ panels' = [panels EXCEPT !["resultsArea"] =
                                   StreamingCard(queryRun.fullAnswer, FALSE)]
                   /\ lastToast' = Toast(settled.n + 1, "success",
                                         Str("Answer generated successfully"))
    /\ buttons' = queryFinally
    /\ inFlight' = [inFlight EXCEPT !["query"] = @ - 1]
    /\ queryRun' = NoRun
    /\ UNCHANGED flowsStarted
    /\ NoPoll
    /\ FlowUnchanged

\* ---- refreshStatusInfo -----------------------------------------------------
\* the three status items of the health card, or the exception
healthRendered(data) ==
    LET status == Get(data, "status")
    IN  IF status.kind = "throw" THEN status ELSE Return(Rendered("statusItems", data))

\* the status items of the readiness card, or the exception
readinessRendered(data) ==
    LET connected == Get(data, "qdrant_connected")
        info == Get(data, "collection_info")
        points == Method(Get(info.value, "points_count"))
    IN  IF connected.kind = "throw" THEN connected
        ELSE IF Truthy(info.value) /\ points.kind = "throw" THEN points
        ELSE Return(Rendered("statusItems", data))

\* the refresh button is clicked or the status tab is shown
RefreshStatusInfo ==
    /\ Triggered
    /\ buttons' = [buttons EXCEPT !["refreshStatusBtn"] = TRUE]
    /\ panels' = [panels EXCEPT !["healthStatusContent"] = LoadingSpinner,
                                !["readinessStatusContent"] = LoadingSpinner]
    /\ inFlight' = [inFlight EXCEPT !["statusHealth"] = @ + 1]
    /\ UNCHANGED <<queryRun, lastToast, settled>>
    /\ NoPoll
    /\ FlowUnchanged

\* healthCheck returns to one waiting run
StatusHealthSettle(r) ==
    /\ inFlight["statusHealth"] > 0
    /\ LET result == resultOf(r)
           rendered == healthRendered(result.data)
       IN  IF Truthy(result.error)
           THEN /\ panels' = [panels EXCEPT !["healthStatusContent"] = ErrorAlert(result.error)]
                /\ inFlight' = [inFlight EXCEPT !["statusHealth"] = @ - 1,
                                                !["statusReadiness"] = @ + 1]
                /\ Settle("statusHealth", result, FALSE)
           ELSE IF rendered.kind = "throw"
           THEN /\ UNCHANGED panels
                /\ inFlight' = [inFlight EXCEPT !["statusHealth"] = @ - 1]
                /\ Settle("statusHealth", result, TRUE)
           ELSE /\ panels' = [panels EXCEPT !["healthStatusContent"] = rendered.value]
                /\ inFlight' = [inFlight EXCEPT !["statusHealth"] = @ - 1,
                                                !["statusReadiness"] = @ + 1]
                /\ Settle("statusHealth", result, FALSE)
    /\ UNCHANGED <<buttons, queryRun, lastToast, flowsStarted>>
    /\ NoPoll
    /\ FlowUnchanged

StatusReadinessResponses ==
    FlowResponses(BodyReadyCollection)
        \cup {FetchResponse(200, Str("application/json"), BodyReady),
              FetchResponse(200, Str("application/json"), BodyBareCollection)}

\* readinessCheck returns to one waiting run
StatusReadinessSettle(r) ==
    /\ inFlight["statusReadiness"] > 0
    /\ inFlight' = [inFlight EXCEPT !["statusReadiness"] = @ - 1]
    /\ LET result == resultOf(r)
           rendered == readinessRendered(result.data)
           updated == [panels EXCEPT !["lastUpdated"] = Rendered("time", Str("now"))]
       IN  IF Truthy(result.error)
           THEN /\ panels' = [updated EXCEPT !["readinessStatusContent"] =
                                ErrorAlert(result.error)]
                /\ buttons' = [buttons EXCEPT !["refreshStatusBtn"] = FALSE]
                /\ Settle("statusReadiness", result, FALSE)
           ELSE IF rendered.kind = "throw"
           THEN /\ UNCHANGED <<panels, buttons>>
                /\ Settle("statusReadiness", result, TRUE)
           ELSE /\ panels' = [updated EXCEPT !["readinessStatusContent"] = rendered.value]
                /\ buttons' = [buttons EXCEPT !["refreshStatusBtn"] = FALSE]
                /\ Settle("statusReadiness", result, FALSE)
    /\ UNCHANGED <<queryRun, lastToast, flowsStarted>>
    /\ NoPoll
    /\ FlowUnchanged

\* ---- updateHealthIndicator among the flows ---------------------------------
\* the page has loaded, or the interval timer fires
HealthPoll ==
    /\ Triggered
    /\ HealthStart
    /\ PollUnchanged
    /\ UNCHANGED <<healthEnded, readiness>>
    /\ UNCHANGED <<panels, buttons, inFlight, queryRun, lastToast, settled>>
    /\ FlowUnchanged

\* readinessCheck returns to one waiting run of updateHealthIndicator
HealthPollSettle(r) ==
    /\ HealthResume(r)
    /\ Settle("health", resultOf(r), healthIndicatorOf(resultOf(r)).kind = "throw")
    /\ PollUnchanged
    /\ UNCHANGED <<panels, buttons, inFlight, queryRun, lastToast, flowsStarted, healthStarted>>
    /\ FlowUnchanged

FlowNext ==
    \/ RefreshCollectionInfo
    \/ \E r \in FlowResponses(BodyInfo) : InfoSettle(r)
    \/ \E valid \in BOOLEAN : HandleFileUpload(valid)
    \/ \E result \in UploadResults : UploadFlowSettle(result)
    \/ DeleteConfirmed
    \/ \E r \in FlowResponses(BodyDeleted) : DeleteSettle(r)
    \/ \E valid, useStreaming, includeSources, enableEvaluation \in BOOLEAN :
            HandleQuerySubmit(valid, useStreaming, includeSources, enableEvaluation)
    \/ \E r \in FlowResponses(BodyAnswer) : StandardQuerySettle(r)
    \/ \E chunk \in FlowChunks : StreamFlowChunk(chunk)
    \/ \E outcome \in StreamOutcomes : StreamQuerySettle(outcome)
    \/ RefreshStatusInfo
    \/ \E r \in FlowResponses(BodyHealth) : StatusHealthSettle(r)
    \/ \E r \in StatusReadinessResponses : StatusReadinessSettle(r)
    \/ HealthPoll
    \/ \E r \in FlowResponses(BodyReadyCollection) : HealthPollSettle(r)

(***************************************************************************)
(* Specifications.                                                         *)
(***************************************************************************)
Init == ClientInit /\ FormIdle /\ HealthInit /\ FlowInit

Next == ClientNext

Spec == Init /\ [][Next]_vars

InitForm == ClientInit /\ FormInit /\ HealthInit /\ FlowInit

NextForm == FormNext

SpecForm == InitForm /\ [][NextForm]_vars

InitHealth == ClientInit /\ FormIdle /\ HealthInit /\ FlowInit

InitFlows == ClientInit /\ FormIdle /\ HealthInit /\ FlowInit

NextFlows == FlowNext

SpecFlows == InitFlows /\ [][NextFlows]_vars

NextHealth == HealthNext

SpecHealth == InitHealth /\ [][NextHealth]_vars

(***************************************************************************)
(* Properties of the API client.                                           *)
(***************************************************************************)
RequestDone == callResult.method = "request" /\ callResult.kind = "resolved"

UploadDone == callResult.method = "uploadDocument" /\ callResult.kind = "resolved"

StreamDone == callResult.method = "queryStream" /\ callResult.kind = "resolved"

\* the response is parsed with response.json()
JsonPath == resp.contentType \in {Null, Str("application/json"),
                                  Str("application/json; charset=utf-8")}

Unparseable(body) == body \in {BodyEmpty, BodyText}

\* a non-2xx response to request
RequestHttpError == RequestDone /\ resp.fetch = "ok" /\ resp.status \notin 200..299

\* C1: every Result a client call returns has exactly one of data and error
\* non-null.
C1_ExactlyOneNonNull ==
    callResult.kind = "resolved" =>
        ((callResult.data = Null) # (callResult.error = Null))

\* the call met a network failure, a non-2xx status, a parse failure or an abort
CallFailed ==
    \/ /\ RequestDone
       /\ \/ resp.fetch = "reject"
          \/ resp.status \notin 200..299
          \/ JsonPath /\ Unparseable(resp.body)
    \/ /\ UploadDone
       /\ \/ resp.xhr \in {"error", "abort"}
          \/ resp.xhr = "load" /\ (resp.status \notin 200..299 \/ Unparseable(resp.body))
    \/ /\ StreamDone
       /\ resp.stream \in {"fetchReject", "httpError", "textReject", "readReject"}

\* C2: no client call rejects, and every failed call ends with
\* {data: null, error: <non-empty message>}.
C2_NeverRejects ==
    /\ callResult.kind # "rejected"
    /\ CallFailed =>
        /\ callResult.data = Null
        /\ callResult.error.t = "string"
        /\ callResult.error.v # ""

C2_Witness ==
    /\ RequestDone
    /\ resp.fetch = "reject"
    /\ callResult.error = Str("Failed to fetch")

ErrorFields == {"error", "message", "detail"}

\* the object a non-2xx JSON response to request carries
ErrorObject == JsonParse(resp.body).value.f

HasErrorObject ==
    /\ RequestHttpError
    /\ JsonPath
    /\ JsonParse(resp.body).kind = "return"
    /\ JsonParse(resp.body).value.t = "object"

FirstPresent(f) ==
    IF "error" \in DOMAIN f THEN f.error
    ELSE IF "message" \in DOMAIN f THEN f.message
    ELSE f.detail

NonEmpty(f, name) == name \in DOMAIN f /\ f[name].v # ""

FirstNonEmpty(f) ==
    IF NonEmpty(f, "error") THEN f.error
    ELSE IF NonEmpty(f, "message") THEN f.message
    ELSE f.detail

\* C3 as stated: the error of a non-2xx JSON response is the value of the first
\* field present among error, message, detail.
C3_FirstPresentField ==
    (HasErrorObject /\ ErrorFields \cap DOMAIN ErrorObject # {}) =>
        callResult.error = FirstPresent(ErrorObject)

\* C3 amended: the error of a non-2xx JSON response is the value of the first
\* field among error, message, detail that is present with a non-empty value.
C3_FirstNonEmptyField ==
    (HasErrorObject /\ \E name \in ErrorFields : NonEmpty(ErrorObject, name)) =>
        /\ callResult.data = Null
        /\ callResult.error = FirstNonEmpty(ErrorObject)

C3_Witness ==
    /\ HasErrorObject
    /\ resp.body = BodyErrorAll
    /\ callResult.error = Str("X")

StatusLine == Str("HTTP " \o ToString(resp.status) \o ": " \o resp.statusText)

\* C4 as stated: a non-2xx response without a parseable error field (a JSON
\* body without error/message/detail, a text body, an unparseable body) gives
\* the error "HTTP <status>: <statusText>".
C4_AlwaysStatusLine ==
    (/\ RequestHttpError
     /\ \/ ~JsonPath
        \/ Unparseable(resp.body)
        \/ JsonParse(resp.body).value.t # "object"
        \/ ErrorFields \cap DOMAIN ErrorObject = {}) =>
        callResult.error = StatusLine

\* C4 amended: the error is "HTTP <status>: <statusText>" for a JSON body other
\* than null without error/message/detail and for an empty text body; a
\* non-empty text body is itself the error, and an unparseable or null JSON
\* body gives the message of the exception.
C4_StatusLineOrTextOrException ==
    RequestHttpError =>
        /\ (JsonPath /\ ~Unparseable(resp.body) /\ resp.body # BodyNull
              /\ (JsonParse(resp.body).value.t = "object" =>
                    ErrorFields \cap DOMAIN ErrorObject = {}))
           => callResult.error = StatusLine
        /\ (~JsonPath /\ resp.body = "") => callResult.error = StatusLine
        /\ (~JsonPath /\ resp.body # "") => callResult.error = Str(resp.body)
        /\ (JsonPath /\ Unparseable(resp.body)) => callResult.error = Str(SyntaxErrorMessage)
        /\ (JsonPath /\ resp.body = BodyNull) => callResult.error = Str(TypeErrorMessage)

C4_Witness ==
    /\ RequestHttpError
    /\ ~JsonPath
    /\ resp.body = ""
    /\ callResult.error = Str("HTTP 404: Not Found")

ComputableEvents == SelectSeq(progressEvents, LAMBDA e : e.lengthComputable)

\* C5: onProgress is called once per progress event with computable length and
\* for no other, with loaded/total * 100; the values never decrease and lie in
\* [0, 100].
C5_ProgressValues ==
    onProgressGiven =>
        /\ Len(onProgressCalls) = Len(ComputableEvents)
        /\ \A i \in 1..Len(onProgressCalls) :
            LET p == onProgressCalls[i]
                e == ComputableEvents[i]
            IN  /\ p.den > 0
                /\ p.num * e.total = e.loaded * 100 * p.den
                /\ 0 <= p.num /\ p.num <= 100 * p.den
                /\ i > 1 => onProgressCalls[i - 1].num * p.den
                              <= p.num * onProgressCalls[i - 1].den

C5_Witness ==
    /\ onProgressGiven
    /\ Len(onProgressCalls) = 3
    /\ onProgressCalls[1].num > 0
    /\ onProgressCalls[1].num < onProgressCalls[3].num
    /\ UploadDone

\* C6 as stated: the chunks passed to onChunk, concatenated, are the data of
\* the Result, however the stream ends or fails.
C6_ChunksAreData ==
    (StreamDone /\ onChunkCalls > 0) => callResult.data = Str(fullAnswer)

\* C6 amended: when the stream ends without an error the chunks passed to
\* onChunk, concatenated, are the data of the Result; when it fails the data
\* is null, whatever chunks were passed before.
C6_ChunksAreDataOnSuccess ==
    /\ (streamPc = "read" /\ onChunkGiven) => fullText = fullAnswer
    /\ (StreamDone /\ onChunkGiven) =>
        IF callResult.error = Null
        THEN callResult.data = Str(fullAnswer)
        ELSE callResult.data = Null

C6_Witness ==
    /\ StreamDone
    /\ onChunkGiven
    /\ callResult.error = Null
    /\ onChunkCalls = 3
    /\ callResult.data = Str("a[e9]a")

\* the initial response of the queryStream call was not 2xx
StreamNotOk == streamStatus # 0 /\ streamStatus \notin 200..299

\* C7 as stated: a non-2xx initial response gives {data: null, error: <body
\* text>}, with no onChunk call and no read of the body reader.
C7_ErrorIsBodyText ==
    (StreamDone /\ resp.stream = "httpError") =>
        /\ callResult.data = Null
        /\ callResult.error = Str(resp.text)
        /\ onChunkCalls = 0
        /\ readerReads = 0

\* C7 amended: a non-2xx initial response gives {data: null, error: e} where e
\* is the body text when that is not empty, "HTTP <status>: <statusText>" when
\* it is empty, and the exception's message when the body cannot be read; no
\* onChunk call is made and the body reader is never read.
C7_ShortCircuit ==
    StreamNotOk =>
        /\ onChunkCalls = 0
        /\ readerReads = 0
        /\ streamPc \in {"text", "idle"}
        /\ StreamDone =>
            /\ callResult.data = Null
            /\ resp.stream \in {"httpError", "textReject"}
            /\ (resp.stream = "httpError" /\ resp.text # "") =>
                    callResult.error = Str(resp.text)
            /\ (resp.stream = "httpError" /\ resp.text = "") =>
                    callResult.error =
                        Str("HTTP " \o ToString(resp.status) \o ": " \o StatusText(resp.status))
            /\ (resp.stream = "textReject") =>
                    callResult.error \in {Str(resp.message),
                                          Str("Streaming failed. Please try again.")}

C7_Witness ==
    /\ StreamDone
    /\ resp.stream = "httpError"
    /\ resp.text = "Bad Gateway"
    /\ callResult.error = Str("Bad Gateway")
    /\ onChunkGiven

(***************************************************************************)
(* Properties of the page.                                                 *)
(***************************************************************************)
\* C8: after a change of the streaming toggle, include-sources is unchecked
\* and disabled when streaming is on, and enabled with its value kept when
\* streaming is off; no submitted query streams with include-sources set.
C8_StreamingExcludesSources ==
    /\ [][useStreamingCheck' # useStreamingCheck =>
            IF useStreamingCheck'
            THEN ~includeSourcesCheck' /\ includeSourcesDisabled'
            ELSE ~includeSourcesDisabled' /\ includeSourcesCheck' = includeSourcesCheck]_vars
    /\ [](sentQuery.endpoint = "/query/stream" => ~sentQuery.body.include_sources)

C8_Witness ==
    /\ useStreamingCheck
    /\ includeSourcesDisabled
    /\ ~includeSourcesCheck
    /\ sentQuery.endpoint = "/query/stream"
    /\ sentQuery.body.sent

HealthyState == [dot |-> "healthy", text |-> "Healthy"]

DegradedState == [dot |-> "unhealthy", text |-> "Degraded"]

UnhealthyState == [dot |-> "unhealthy", text |-> "Unhealthy"]

ReadyAndConnected(data) ==
    /\ data.t = "object"
    /\ "status" \in DOMAIN data.f
    /\ "qdrant_connected" \in DOMAIN data.f
    /\ data.f.status = Str("ready")
    /\ data.f.qdrant_connected = Bool(TRUE)

ExpectedIndicator(result) ==
    IF result.error # Null THEN UnhealthyState
    ELSE IF ReadyAndConnected(result.data) THEN HealthyState
    ELSE DegradedState

\* C9: every updateHealthIndicator run ends with the indicator in the final
\* state its readiness Result calls for: unhealthy on an error, healthy on
\* status "ready" with qdrant_connected true, degraded otherwise; the three
\* are distinct.
C9_FinalState ==
    /\ [][healthEnded' # healthEnded => healthStatus' = ExpectedIndicator(readiness')]_vars
    /\ [](Cardinality({Checking, HealthyState, DegradedState, UnhealthyState}) = 4)

\* C10 as stated: page load starts one check and every timer tick one more;
\* once beforeunload has fired the timer is cancelled and no check is started.
C10_NoCheckAfterUnload ==
    /\ [](healthStarted = (IF domReady THEN 1 ELSE 0) + timerTicks)
    /\ [](unloadFired # "no" => ~timerActive)
    /\ [][unloadFired # "no" => healthStarted' = healthStarted]_vars

\* C10 amended: page load starts one check and every timer tick one more; once
\* beforeunload has fired on a page whose timer was set, the timer is
\* cancelled and no check is started.
C10_NoCheckAfterLateUnload ==
    /\ [](healthStarted = (IF domReady THEN 1 ELSE 0) + timerTicks)
    /\ [](unloadFired = "late" => ~timerActive)
    /\ [][unloadFired = "late" => healthStarted' = healthStarted]_vars

C10_Witness ==
    /\ unloadFired = "late"
    /\ pageAlive
    /\ timerTicks = 2
    /\ healthStarted = 3
    /\ healthInFlight > 0

(***************************************************************************)
(* C11: how each flow shows the error of a Result.                         *)
(***************************************************************************)
\* a client call has just returned a Result whose error is not null
ErrorReturned == settled'.n # settled.n /\ settled'.error # Null

\* the element a flow renders its Result into
PanelOf(flow) ==
    CASE flow = "upload" -> "uploadResult"
      [] flow \in {"query", "stream"} -> "resultsArea"
      [] flow = "statusHealth" -> "healthStatusContent"
      [] flow = "statusReadiness" -> "readinessStatusContent"
      [] OTHER -> "collectionInfoContent"

AlertShown == \E id \in PanelIds : panels'[id] = ErrorAlert(settled'.error)

ToastShown == lastToast' = Toast(settled'.n, "error", settled'.error)

\* C11 as stated: in every flow, a Result with a non-null error is shown both
\* as an inline alert and as an error toast
C11_AlertAndToast == [][ErrorReturned => AlertShown /\ ToastShown]_vars

\* C11: a Result with a non-null error is shown as an inline alert in the
\* flow's panel and as an error toast by upload and by both queries, as an
\* error toast alone by delete collection, as an inline alert alone by the
\* status and collection-info refreshes, and as the Unhealthy indicator,
\* without its message, by the health poll
C11_SurfacePerFlow ==
    [][ErrorReturned =>
        CASE settled'.flow \in {"upload", "query", "stream"} ->
                /\ panels'[PanelOf(settled'.flow)] = ErrorAlert(settled'.error)
                /\ ToastShown
          [] settled'.flow = "delete" ->
                /\ ToastShown
                /\ panels' = panels
          [] settled'.flow \in {"statusHealth", "statusReadiness", "info"} ->
                /\ panels'[PanelOf(settled'.flow)] = ErrorAlert(settled'.error)
                /\ lastToast' = lastToast
          [] OTHER ->
                /\ healthStatus' = Unhealthy
                /\ panels' = panels
                /\ lastToast' = lastToast]_vars

\* deleteCollection failed: its error is the toast, and no panel holds an alert
C11_Witness ==
    /\ settled.flow = "delete"
    /\ settled.error # Null
    /\ lastToast = Toast(settled.n, "error", settled.error)
    /\ \A id \in PanelIds : panels[id].kind # "errorAlert"

(***************************************************************************)
(* C12: runs of one refresh flow interleaved at their awaits.              *)
(***************************************************************************)
\* the runs that write each panel, and the placeholder they start with
AtRest(id) ==
    CASE id = "collectionInfoContent" -> inFlight["info"] = 0
      [] id \in {"healthStatusContent", "readinessStatusContent"} ->
            inFlight["statusHealth"] = 0 /\ inFlight["statusReadiness"] = 0
      [] OTHER -> TRUE

RefreshPanels == {"collectionInfoContent", "healthStatusContent", "readinessStatusContent"}

\* a panel holds the whole output of one step: nothing yet, the placeholder,
\* an alert, or the rendering of one response
WholeOutput(content) ==
    \/ content \in {Empty, LoadingSpinner}
    \/ content.kind = "errorAlert" /\ content.message.t = "string"
    \/ content.kind \in {"collectionStat", "statusItems"} /\ content.data.t = "object"

\* C12: under every interleaving of the runs of updateHealthIndicator, of
\* refreshCollectionInfo and of refreshStatusInfo, each panel holds the whole
\* output of a single step, and once no run that writes it is in flight it is
\* not left in its loading or checking placeholder
C12_NoPlaceholderAtRest ==
    /\ \A id \in RefreshPanels : WholeOutput(panels[id])
    /\ \A id \in RefreshPanels : AtRest(id) => panels[id] # LoadingSpinner
    /\ healthInFlight = 0 => healthStatus # Checking

\* what the run whose call returned last wrote is what its panel holds: the
\* last write wins
C12_LastWriteWins ==
    [][(settled'.n # settled.n /\ ~settled'.threw
            /\ settled'.flow \in {"info", "statusHealth", "statusReadiness"}) =>
        panels'[PanelOf(settled'.flow)] =
            IF settled'.error # Null THEN ErrorAlert(settled'.error)
            ELSE Rendered(IF settled'.flow = "info" THEN "collectionStat" ELSE "statusItems",
                          settled'.data)]_vars

(***************************************************************************)
(* C13: the loading state of the buttons.                                  *)
(***************************************************************************)
\* the runs in flight of the flow that sets each button loading
RunsOf(button) ==
    CASE button = "submitQueryBtn" -> inFlight["query"]
      [] button = "deleteCollectionBtn" -> inFlight["delete"]
      [] button = "refreshStatusBtn" -> inFlight["statusHealth"] + inFlight["statusReadiness"]
      [] OTHER -> inFlight["info"]

\* C13: a button is reset once the runs of its flow have had their Results,
\* whatever the Results were, and it is loading for as long as a run of its
\* flow is in flight
C13_ButtonTracksRuns ==
    \A button \in ButtonIds : buttons[button] <=> RunsOf(button) > 0

\* the buttons whose flow wraps its call in try/finally or resets before it
\* reads the Result do track their runs
C13_GuardedButtonsTrackRuns ==
    \A button \in {"submitQueryBtn", "deleteCollectionBtn"} :
        buttons[button] <=> RunsOf(button) > 0

====
